---- MODULE Spec2Model ----
(***************************************************************************)
(* RepositoryHandler of download_and_hash.py: clone a repository into a    *)
(* temporary directory, collect its files (excluding .git), hash every     *)
(* file in its own asyncio task joined by asyncio.gather, log the pairs.   *)
(*                                                                         *)
(* One action is one step of a coroutine between two suspension points,    *)
(* as the asyncio event loop runs it.                                      *)
(***************************************************************************)
EXTENDS Integers, Sequences, FiniteSets, TLC

\* ---------------------------------------------------------------- bounds
MaxLen == 3      \* longest file content, in bytes
MaxByte == 1     \* bytes are 0..MaxByte
MaxChunk == 2    \* CHUNK_SIZE ranges over 1..MaxChunk

\* ------------------------------------------------------------ file system
\* Paths relative to repo_path, as tuples of components (Path.parts).
NameA == <<"a.txt">>
NameGit == <<".git">>
NameGitConfig == <<".git", "config">>
NameSub == <<"sub">>
NameSubB == <<"sub", "b.txt">>
AllPaths == {NameA, NameGit, NameGitConfig, NameSub, NameSubB}

\* temp_dir / "repo": the components every collected path starts with.
RepoPathParts == <<"tmp", "repo">>

Kinds == {"none", "file", "dir", "link_file", "link_dir"}

Parent(p) == SubSeq(p, 1, Len(p) - 1)

\* A tree is well formed when an entry exists only inside something that is,
\* or resolves to, a directory.
WellFormed(t) ==
    \A p \in AllPaths :
        (Len(p) > 1 /\ t[p] # "none") => t[Parent(p)] \in {"dir", "link_dir"}

Trees ==
    {t \in [AllPaths -> Kinds] :
        /\ WellFormed(t)
        /\ t[NameA] \in {"none", "file", "link_file"}
        /\ t[NameGit] \in {"none", "file", "dir"}
        /\ t[NameGitConfig] \in {"none", "file"}
        /\ t[NameSub] \in {"none", "dir", "link_dir"}
        /\ t[NameSubB] \in {"none", "file"}}

RECURSIVE SeqsUpTo(_, _)
SeqsUpTo(S, n) ==
    IF n = 0 THEN {<<>>}
    ELSE LET shorter == SeqsUpTo(S, n - 1)
         IN  shorter \cup {Append(s, b) : s \in {x \in shorter : Len(x) = n - 1}, b \in S}

Bytes == 0..MaxByte
Contents == SeqsUpTo(Bytes, MaxLen)

\* The contents the pipeline's files are drawn from: empty, shorter than a
\* chunk, longer than a chunk.
TreeContents == {<<>>, <<1>>, <<1, 0, 1>>}

Faults == {"none", "open", "read"}

\* ---------------------------------------------------------------- hashing
\* hashlib.sha256 as an incremental accumulator over bytes with a
\* fixed-width hexadecimal rendering.
HashInit == 7
HashMul == 31
HashMod == 256

RECURSIVE Update(_, _)
Update(h, chunk) ==
    IF chunk = <<>> THEN h
    ELSE Update((h * HashMul + Head(chunk) + 1) % HashMod, Tail(chunk))

\* The number of hexadecimal digits of a digest.
DigestLen == 2

\* A rendering that drops the leading zero digit.
Hexdigest_NoPad(h) == IF h < 16 THEN <<h>> ELSE <<h \div 16, h % 16>>

Hexdigest(h) == <<h \div 16, h % 16>>

Min(a, b) == IF a < b THEN a ELSE b

\* A read that treats a short final chunk as end of file.
ReadChunk_FullChunksOnly(c, p, n) ==
    IF p + n <= Len(c) THEN SubSeq(c, p + 1, p + n) ELSE <<>>

\* file_to_hash.read(CHUNK_SIZE) at offset p of content c: at most n bytes,
\* empty at end of file.
ReadChunk(c, p, n) == SubSeq(c, p + 1, Min(p + n, Len(c)))

\* -------------------------------------------------------------- discovery
\* A filter that keeps every entry, directories included.
IsFile_AnyEntry(t, p) == t[p] # "none"

\* Path.is_file(): follows symbolic links.
IsFile(t, p) == t[p] \in {"file", "link_file"}

\* repo_path.rglob("*"): every entry below the root, not descending into
\* symbolic links to directories.
RGlob(t) ==
    {p \in AllPaths :
        /\ t[p] # "none"
        /\ \A k \in 1..(Len(p) - 1) : t[SubSeq(p, 1, k)] = "dir"}

Parts(p) == RepoPathParts \o p

InParts(name, parts) == \E k \in 1..Len(parts) : parts[k] = name

\* The list comprehension of collect_files, as a set.
CollectFilesSet(t) ==
    {p \in RGlob(t) : IsFile(t, p) /\ ~InParts(".git", Parts(p))}

Range(s) == {s[k] : k \in 1..Len(s)}

\* rglob yields in directory order, which the file system chooses.
Orderings(S) == {s \in [1..Cardinality(S) -> S] : Range(s) = S}

VARIABLES
    tree,       \* the repository's tree: path -> kind
    content,    \* path -> bytes of the file
    fault,      \* path -> where the file system fails for that file
    chunkSize,  \* CHUNK_SIZE
    repo_path,  \* self.repo_path is set
    exists,     \* the temporary directory holds the cloned tree
    mainpc,     \* position of run() / process_files() / compute_hashes()
    files,      \* files_to_hash
    taskpc,     \* position of each hash_file task
    pos,        \* read offset of each task's file
    sha256,     \* each task's accumulator
    isOpen,     \* each task's file is open
    hashes,     \* each task's result
    outer,      \* the future asyncio.gather returns
    outerExc,   \* the path whose error the gather future carries
    outcome,    \* how compute_hashes ended
    result,     \* list(zip(files_to_hash, hashes))
    error,      \* the exception run() ended with
    log,        \* the "path: hash" lines logged
    loop,       \* the event loop of asyncio.run
    cloneLog,   \* what clone_repo logged
    calls       \* the methods invoked so far, in order

vars == <<tree, content, fault, chunkSize, repo_path, exists, mainpc, files,
          taskpc, pos, sha256, isOpen, hashes, outer, outerExc, outcome,
          result, error, log, loop, cloneLog, calls>>

envVars == <<tree, content, fault, chunkSize>>
taskVars == <<taskpc, pos, sha256, isOpen, hashes>>
mainVars == <<repo_path, exists, mainpc, files, outcome, result, error, log, loop>>

Tasks == DOMAIN taskpc

FinalPcs == {"done", "failed", "cancelled"}

\* Only entries that exist as files carry content and faults.
EnvOK(t, c, f) ==
    \A p \in AllPaths :
        t[p] \notin {"file", "link_file"} => (c[p] = <<>> /\ f[p] = "none")

Init ==
    /\ tree \in Trees
    /\ content \in [AllPaths -> TreeContents]
    /\ fault \in [AllPaths -> Faults]
    /\ EnvOK(tree, content, fault)
    \* files the traversal never reaches are never read
    /\ \A p \in AllPaths : p \notin CollectFilesSet(tree) => (content[p] = <<>> /\ fault[p] = "none")
    /\ chunkSize \in 1..MaxChunk
    /\ repo_path = FALSE
    /\ exists = FALSE
    /\ mainpc = "run"
    /\ files = <<>>
    /\ taskpc = <<>>
    /\ pos = <<>>
    /\ sha256 = <<>>
    /\ isOpen = <<>>
    /\ hashes = <<>>
    /\ outer = "none"
    /\ outerExc = <<>>
    /\ outcome = "pending"
    /\ result = <<>>
    /\ error = "none"
    /\ log = <<>>
    /\ loop = "running"
    /\ cloneLog = <<>>
    /\ calls = <<>>

\* ------------------------------------------------------------- main path
\* A clone_repo that logs the GitCommandError and does not re-raise it.
CloneRepo_Swallows ==
    /\ mainpc = "run"
    /\ repo_path' = TRUE
    /\ calls' = Append(calls, "clone_repo")
    /\ mainpc' = "process_files"
    /\ error' = error
    /\ \/ /\ exists' = TRUE
          /\ cloneLog' = Append(cloneLog, "info: cloning")
       \/ /\ exists' = FALSE
          /\ cloneLog' = cloneLog \o <<"info: cloning", "error: clone failed">>
    /\ UNCHANGED <<envVars, taskVars, files, outer, outerExc, outcome, result, log, loop>>

\* clone_repo: sets repo_path, then clones or re-raises GitCommandError;
\* the error leaves run() through the TemporaryDirectory block.
CloneRepo ==
    /\ mainpc = "run"
    /\ repo_path' = TRUE
    /\ calls' = Append(calls, "clone_repo")
    /\ \/ /\ exists' = TRUE
          /\ mainpc' = "process_files"
          /\ error' = error
          /\ cloneLog' = Append(cloneLog, "info: cloning")
       \/ /\ exists' = FALSE
          /\ mainpc' = "run_raised"
          /\ error' = "GitCommandError"
          /\ cloneLog' = cloneLog \o <<"info: cloning", "error: clone failed">>
    /\ UNCHANGED <<envVars, taskVars, files, outer, outerExc, outcome, result, log, loop>>

\* process_files calls collect_files first. rglob on a root that is not a
\* directory yields nothing and raises nothing.
CollectFilesList(t, rootExists) == IF rootExists THEN CollectFilesSet(t) ELSE {}

CollectFiles ==
    /\ mainpc = "process_files"
    /\ files' \in Orderings(CollectFilesList(tree, exists))
    /\ mainpc' = "compute_hashes"
    /\ calls' = calls \o <<"process_files", "collect_files">>
    /\ UNCHANGED <<envVars, cloneLog, taskVars, repo_path, exists, outer, outerExc,
                   outcome, result, error, log, loop>>

\* A compute_hashes that collects the files again instead of taking the
\* list it is handed.
ComputeHashes_Recollects ==
    /\ mainpc = "compute_hashes"
    /\ files' \in Orderings(CollectFilesList(tree, exists))
    /\ taskpc' = [i \in 1..Len(files) |-> "new"]
    /\ pos' = [i \in 1..Len(files) |-> 0]
    /\ sha256' = [i \in 1..Len(files) |-> HashInit]
    /\ isOpen' = [i \in 1..Len(files) |-> FALSE]
    /\ hashes' = [i \in 1..Len(files) |-> <<>>]
    /\ outer' = IF files = <<>> THEN "result" ELSE "pending"
    /\ mainpc' = "gather"
    /\ calls' = calls \o <<"collect_files", "compute_hashes">>
    /\ UNCHANGED <<envVars, cloneLog, repo_path, exists, outerExc, outcome,
                   result, error, log, loop>>

\* compute_hashes up to the await: one task per file, all handed to
\* asyncio.gather at once; gather of nothing is a future already resolved.
ComputeHashes ==
    /\ mainpc = "compute_hashes"
    /\ taskpc' = [i \in 1..Len(files) |-> "new"]
    /\ pos' = [i \in 1..Len(files) |-> 0]
    /\ sha256' = [i \in 1..Len(files) |-> HashInit]
    /\ isOpen' = [i \in 1..Len(files) |-> FALSE]
    /\ hashes' = [i \in 1..Len(files) |-> <<>>]
    /\ outer' = IF files = <<>> THEN "result" ELSE "pending"
    /\ mainpc' = "gather"
    /\ calls' = Append(calls, "compute_hashes")
    /\ UNCHANGED <<envVars, cloneLog, repo_path, exists, files, outerExc, outcome,
                   result, error, log, loop>>

\* A pairing that loses the last pair.
Zip_DropsLast(fs, hs) == [k \in 1..(Len(fs) - 1) |-> <<fs[k], hs[k]>>]

\* A pairing that attributes the digests in the opposite order.
Zip_Swapped(fs, hs) == [k \in 1..Len(fs) |-> <<fs[k], hs[Len(hs) + 1 - k]>>]

\* list(zip(files_to_hash, hashes))
Zip(fs, hs) == [k \in 1..Len(fs) |-> <<fs[k], hs[k]>>]

\* The await of gather resumes with the list of results.
GatherReturn ==
    /\ mainpc = "gather"
    /\ outer = "result"
    /\ result' = Zip(files, hashes)
    /\ outcome' = "returned"
    /\ mainpc' = "log"
    /\ UNCHANGED <<envVars, cloneLog, calls, taskVars, repo_path, exists, files, outer,
                   outerExc, error, log, loop>>

\* The await of gather resumes with the first task's exception: it leaves
\* compute_hashes, process_files and run(), whose TemporaryDirectory block
\* removes the tree on the way out.
GatherRaise ==
    /\ mainpc = "gather"
    /\ outer = "exception"
    /\ outcome' = "raised"
    /\ error' = "IOError"
    /\ exists' = FALSE
    /\ mainpc' = "run_raised"
    /\ UNCHANGED <<envVars, cloneLog, calls, taskVars, repo_path, files, outer, outerExc,
                   result, log, loop>>

\* process_files: one logging.info per pair.
LogResults ==
    /\ mainpc = "log"
    /\ log' = log \o result
    /\ mainpc' = "run_exit"
    /\ UNCHANGED <<envVars, cloneLog, calls, taskVars, repo_path, exists, files, outer,
                   outerExc, outcome, result, error, loop>>

\* run() leaves the TemporaryDirectory block.
RunExit ==
    /\ mainpc = "run_exit"
    /\ exists' = FALSE
    /\ mainpc' = "run_done"
    /\ UNCHANGED <<envVars, cloneLog, calls, taskVars, repo_path, files, outer, outerExc,
                   outcome, result, error, log, loop>>

\* ------------------------------------------------------------ hash tasks
\* Has the hash_file call of a task ended with a result or an exception?
Finished(pc) == pc \in {"done", "failed"}

\* gather(..., return_exceptions=True): an exception counts as a result.
GatherOuter_ReturnExceptions(pcs, i, o) ==
    IF o # "pending" THEN o
    ELSE IF \A j \in 1..Len(pcs) : pcs[j] \in {"done", "failed"} THEN "result"
    ELSE "pending"

\* gather's _done_callback for task i ending in state pcs[i]: the first
\* exception resolves the outer future at once; the last result resolves it
\* with the list.
GatherOuter(pcs, i, o) ==
    IF o # "pending" THEN o
    ELSE IF pcs[i] = "failed" THEN "exception"
    ELSE IF pcs[i] = "cancelled" THEN "cancelled"
    ELSE IF \A j \in 1..Len(pcs) : pcs[j] = "done" THEN "result"
    ELSE "pending"

DoneCallback(pcs, i) ==
    /\ outer' = GatherOuter(pcs, i, outer)
    /\ outerExc' = IF outer = "pending" /\ pcs[i] = "failed" THEN files[i] ELSE outerExc

\* First step of hash_file: hashlib.sha256(), then aiofiles.open suspends.
\* The loop runs the tasks' first steps in the order gather created them.
TaskStart(i) ==
    /\ loop = "running"
    /\ taskpc[i] = "new"
    /\ \A j \in 1..(i - 1) : taskpc[j] # "new"
    /\ sha256' = [sha256 EXCEPT ![i] = HashInit]
    /\ taskpc' = [taskpc EXCEPT ![i] = "opening"]
    /\ UNCHANGED <<envVars, cloneLog, calls, mainVars, pos, isOpen, hashes, outer, outerExc>>

\* aiofiles.open completes: the file is open and the first read is issued,
\* or open raised and the task ends with that error.
OpenDone(i) ==
    /\ loop = "running"
    /\ taskpc[i] = "opening"
    /\ \A j \in Tasks : taskpc[j] # "new"
    /\ IF fault[files[i]] = "open" \/ ~exists
       THEN /\ taskpc' = [taskpc EXCEPT ![i] = "failed"]
            /\ DoneCallback(taskpc', i)
            /\ UNCHANGED isOpen
       ELSE /\ taskpc' = [taskpc EXCEPT ![i] = "reading"]
            /\ isOpen' = [isOpen EXCEPT ![i] = TRUE]
            /\ UNCHANGED <<outer, outerExc>>
    /\ UNCHANGED <<envVars, cloneLog, calls, mainVars, pos, sha256, hashes>>

\* One read completes: an error or an empty chunk leaves the async with
\* block (the file's close is awaited); a chunk is fed to the accumulator.
ReadStep(i) ==
    /\ loop = "running"
    /\ taskpc[i] = "reading"
    /\ LET chunk == ReadChunk(content[files[i]], pos[i], chunkSize)
       IN  IF fault[files[i]] = "read"
           THEN /\ taskpc' = [taskpc EXCEPT ![i] = "close_err"]
                /\ UNCHANGED <<pos, sha256>>
           ELSE IF chunk = <<>>
           THEN /\ taskpc' = [taskpc EXCEPT ![i] = "close_ok"]
                /\ UNCHANGED <<pos, sha256>>
           ELSE /\ sha256' = [sha256 EXCEPT ![i] = Update(sha256[i], chunk)]
                /\ pos' = [pos EXCEPT ![i] = pos[i] + Len(chunk)]
                /\ UNCHANGED taskpc
    /\ UNCHANGED <<envVars, cloneLog, calls, mainVars, isOpen, hashes, outer, outerExc>>

\* The close awaited by the async with block completes; hash_file returns
\* sha256.hexdigest() or lets the pending exception out.
CloseStep(i) ==
    /\ taskpc[i] \in {"close_ok", "close_err", "close_cancel"}
    /\ isOpen' = [isOpen EXCEPT ![i] = FALSE]
    /\ taskpc' = [taskpc EXCEPT ![i] =
                    CASE taskpc[i] = "close_ok" -> "done"
                      [] taskpc[i] = "close_err" -> "failed"
                      [] OTHER -> "cancelled"]
    /\ hashes' = IF taskpc[i] = "close_ok"
                 THEN [hashes EXCEPT ![i] = Hexdigest(sha256[i])]
                 ELSE hashes
    /\ DoneCallback(taskpc', i)
    /\ UNCHANGED <<envVars, cloneLog, calls, mainVars, pos, sha256>>

\* ------------------------------------------------------------- event loop
\* asyncio.run, after run() has ended: cancel every task still pending.
\* A task waiting in a read gets CancelledError there and closes its file.
CancelPc(pc) ==
    CASE pc \in {"new", "opening"} -> "cancelled"
      [] pc \in {"reading", "close_ok", "close_err"} -> "close_cancel"
      [] OTHER -> pc

\* A task cancelled while aiofiles.open runs in its executor thread: the
\* thread cannot be cancelled, so the file may have been opened all the
\* same, and then nothing closes it.
CancelOpen(pcs, op) ==
    {f \in [DOMAIN pcs -> BOOLEAN] :
        \A i \in DOMAIN pcs :
            IF pcs[i] = "opening" /\ fault[files[i]] # "open"
            THEN TRUE
            ELSE f[i] = op[i]}

LoopShutdown ==
    /\ loop = "running"
    /\ mainpc \in {"run_raised", "run_done"}
    /\ loop' = "cancelling"
    /\ taskpc' = [i \in Tasks |-> CancelPc(taskpc[i])]
    /\ isOpen' \in CancelOpen(taskpc, isOpen)
    /\ UNCHANGED <<envVars, cloneLog, calls, repo_path, exists, mainpc, files, outcome, result,
                   error, log, pos, sha256, hashes, outer, outerExc>>

LoopClose ==
    /\ loop = "cancelling"
    /\ \A i \in Tasks : taskpc[i] \in FinalPcs
    /\ loop' = "closed"
    /\ UNCHANGED <<envVars, cloneLog, calls, taskVars, repo_path, exists, mainpc, files,
                   outcome, result, error, log, outer, outerExc>>

Next ==
    \/ CloneRepo
    \/ CollectFiles
    \/ ComputeHashes
    \/ GatherReturn
    \/ GatherRaise
    \/ LogResults
    \/ RunExit
    \/ LoopShutdown
    \/ LoopClose
    \/ \E i \in Tasks : TaskStart(i)
    \/ \E i \in Tasks : OpenDone(i)
    \/ \E i \in Tasks : ReadStep(i)
    \/ \E i \in Tasks : CloseStep(i)

Spec == Init /\ [][Next]_vars

\* ------------------------------------------------- hash_file called alone
\* A caller awaits hash_file on one existing file directly, outside any
\* gather, with every content up to MaxLen bytes and every chunk size.
InitHash ==
    /\ tree = [p \in AllPaths |-> IF p = NameA THEN "file" ELSE "none"]
    /\ \E c \in Contents : content = [p \in AllPaths |-> IF p = NameA THEN c ELSE <<>>]
    /\ \E f \in Faults : fault = [p \in AllPaths |-> IF p = NameA THEN f ELSE "none"]
    /\ chunkSize \in 1..MaxChunk
    /\ repo_path = TRUE
    /\ exists = TRUE
    /\ mainpc = "hash_file"
    /\ files = <<NameA>>
    /\ taskpc = <<"new">>
    /\ pos = <<0>>
    /\ sha256 = <<HashInit>>
    /\ isOpen = <<FALSE>>
    /\ hashes = << <<>> >>
    /\ outer = "none"
    /\ outerExc = <<>>
    /\ outcome = "pending"
    /\ result = <<>>
    /\ error = "none"
    /\ log = <<>>
    /\ loop = "running"
    /\ cloneLog = <<>>
    /\ calls = <<>>

NextHash ==
    \/ \E i \in Tasks : TaskStart(i)
    \/ \E i \in Tasks : OpenDone(i)
    \/ \E i \in Tasks : ReadStep(i)
    \/ \E i \in Tasks : CloseStep(i)

SpecHash == InitHash /\ [][NextHash]_vars

\* The event loop keeps running a hash_file task that can take a step.
SpecHashLive == SpecHash /\ WF_vars(NextHash)

\* -------------------------------------------- a caller other than main()
\* The methods are public: a caller (the tests are one) may call
\* process_files without clone_repo, go on after a clone_repo that raised,
\* and cancel the task that awaits compute_hashes.

\* process_files before any clone_repo: self.repo_path is None and
\* None.rglob raises AttributeError.
ProcessFilesUnset ==
    /\ mainpc = "run"
    /\ ~repo_path
    /\ calls' = calls \o <<"process_files", "collect_files">>
    /\ error' = "AttributeError"
    /\ mainpc' = "run_raised"
    /\ UNCHANGED <<envVars, cloneLog, taskVars, repo_path, exists, files,
                   outer, outerExc, outcome, result, log, loop>>

\* The caller catches the GitCommandError of clone_repo and goes on to
\* process_files: repo_path is set, the directory was never created.
CloneFailureCaught ==
    /\ mainpc = "run_raised"
    /\ error = "GitCommandError"
    /\ loop = "running"
    /\ error' = "none"
    /\ mainpc' = "process_files"
    /\ UNCHANGED <<envVars, cloneLog, calls, taskVars, repo_path, exists,
                   files, outer, outerExc, outcome, result, log, loop>>

\* Task.cancel() on the task awaiting gather. A pending gather future
\* cancels its children, and the first cancelled child resolves it; a
\* gather future already resolved cancels nothing, and the awaiting task
\* gets CancelledError at its next step.
CallerCancel ==
    /\ mainpc = "gather"
    /\ loop = "running"
    /\ mainpc' = "gather_cancel"
    /\ IF outer = "pending"
       THEN /\ taskpc' = [i \in Tasks |-> CancelPc(taskpc[i])]
            /\ isOpen' \in CancelOpen(taskpc, isOpen)
            /\ outer' = IF \E i \in Tasks : taskpc'[i] = "cancelled"
                        THEN "cancelled" ELSE "pending"
       ELSE UNCHANGED <<taskpc, isOpen, outer>>
    /\ UNCHANGED <<envVars, cloneLog, calls, repo_path, exists, files,
                   outcome, result, error, log, loop, pos, sha256, hashes,
                   outerExc>>

\* The cancelled task resumes with CancelledError, which leaves
\* compute_hashes, process_files and run() with its TemporaryDirectory.
GatherCancelled ==
    /\ mainpc = "gather_cancel"
    /\ outer # "pending"
    /\ outcome' = "cancelled"
    /\ error' = "CancelledError"
    /\ exists' = FALSE
    /\ mainpc' = "run_raised"
    /\ UNCHANGED <<envVars, cloneLog, calls, taskVars, repo_path, files,
                   outer, outerExc, result, log, loop>>

NextCaller ==
    \/ Next
    \/ ProcessFilesUnset
    \/ CloneFailureCaught
    \/ CallerCancel
    \/ GatherCancelled

SpecCaller == Init /\ [][NextCaller]_vars

\* ------------------------------------------------------------- properties
\* The digest of a whole content fed to the accumulator at once.
WholeDigest(c) == Hexdigest(Update(HashInit, c))

OpenCount == Cardinality({i \in Tasks : isOpen[i]})

Faulty(i) == fault[files[i]] # "none"

\* collect_files has returned.
Collected == mainpc \notin {"run", "process_files", "hash_file"} /\ error # "GitCommandError"

\* C1: once compute_hashes has ended, every discovered path appears exactly
\* once in the aggregation.
C1_EveryPathExactlyOnce ==
    outcome # "pending" =>
        \A i \in 1..Len(files) :
            Cardinality({k \in DOMAIN result : result[k][1] = files[i]}) = 1

\* C2: when a file fails, compute_hashes still returns an aggregation, and
\* every file whose own reads succeed has its digest in it.
C2_FailureIsolation ==
    (outcome # "pending" /\ \E i \in Tasks : Faulty(i)) =>
        /\ outcome = "returned"
        /\ \A i \in Tasks :
              ~Faulty(i) =>
                  \E k \in DOMAIN result :
                      result[k] = <<files[i], WholeDigest(content[files[i]])>>

\* C3: for every concurrency limit N >= 1 smaller than the number of files,
\* at most N files are open at once.
C3_BoundedOpenFiles ==
    \A n \in 1..Cardinality(AllPaths) : Len(files) > n => OpenCount <= n

\* C4: at the step where compute_hashes returns or raises, every hash task
\* of the batch has finished.
C4_EndsAfterAllTasks ==
    [][(outcome = "pending" /\ outcome' # "pending") =>
          \A i \in Tasks : Finished(taskpc'[i])]_vars

\* C5: when a hash task fails, compute_hashes never returns an aggregation
\* and nothing is logged; what it raises is the error of a failed file.
C5_FailFast ==
    /\ (\E i \in Tasks : taskpc[i] = "failed") =>
          (outcome # "returned" /\ result = <<>> /\ log = <<>>)
    /\ outcome = "raised" =>
          /\ error = "IOError"
          /\ \E i \in Tasks : taskpc[i] = "failed" /\ outerExc = files[i]
    /\ outcome = "returned" => \A i \in Tasks : ~Faulty(i)

\* A file was hashed to the end, another failed, and nothing came back.
C5_Witness ==
    /\ outcome = "raised"
    /\ mainpc = "run_raised"
    /\ \E i \in Tasks : taskpc[i] = "done"
    /\ result = <<>>
    /\ log = <<>>

\* C6: once the failure has been raised to the caller, no sibling task
\* reads another chunk or completes a digest.
C6_SiblingsAborted ==
    [][outcome = "raised" =>
          \A i \in Tasks :
              /\ pos'[i] = pos[i]
              /\ taskpc[i] = "reading" => taskpc'[i] \in {"reading", "close_cancel"}
              /\ taskpc'[i] = "done" => taskpc[i] = "done"]_vars

\* The regular files under the root, and those inside a .git directory.
RegularFiles(t) ==
    {p \in AllPaths :
        t[p] = "file" /\ \A k \in 1..(Len(p) - 1) : t[SubSeq(p, 1, k)] = "dir"}

InsideExcluded(p) == \E k \in 1..(Len(p) - 1) : p[k] = ".git"

\* C7: for a non-empty tree, collect_files returns exactly the regular files
\* that do not lie inside a .git directory.
C7_CollectExact ==
    (Collected /\ \E p \in AllPaths : tree[p] # "none") =>
        Range(files) = {p \in RegularFiles(tree) : ~InsideExcluded(p)}

OnlyDirectories(t) == \A p \in AllPaths : t[p] \in {"none", "dir"}

\* C8: for a root with no regular file, collect_files returns the empty
\* list and compute_hashes returns the empty aggregation without an error.
C8_EmptyTree ==
    OnlyDirectories(tree) =>
        /\ Collected => files = <<>>
        /\ outcome # "raised"
        /\ error # "IOError"
        /\ mainpc \in {"log", "run_exit", "run_done"} =>
              (outcome = "returned" /\ result = <<>> /\ Tasks = {})

\* A root holding only directories went through the whole pipeline.
C8_Witness ==
    /\ OnlyDirectories(tree)
    /\ tree[NameSub] = "dir"
    /\ tree[NameGit] = "dir"
    /\ mainpc = "run_done"
    /\ outcome = "returned"
    /\ result = <<>>

\* C9: whatever the chunk size, the accumulator after reading a prefix is
\* the accumulator fed that prefix at once, and the digest returned is the
\* digest of the whole content.
C9_ChunkIndependent ==
    \A i \in Tasks :
        /\ taskpc[i] \in {"reading", "close_ok"} =>
              sha256[i] = Update(HashInit, SubSeq(content[files[i]], 1, pos[i]))
        /\ taskpc[i] = "close_ok" => pos[i] = Len(content[files[i]])
        /\ taskpc[i] = "done" => hashes[i] = WholeDigest(content[files[i]])

\* A content longer than one chunk, with a short last chunk, was hashed.
C9_Witness ==
    /\ Tasks # {}
    /\ taskpc[1] = "done"
    /\ chunkSize > 1
    /\ Len(content[files[1]]) > chunkSize
    /\ Len(content[files[1]]) % chunkSize # 0

\* What a run at concurrency level 1 ends with: the files are hashed in
\* input order, and the first faulty one raises.
FirstFaulty == CHOOSE i \in Tasks : Faulty(i) /\ \A j \in 1..(i - 1) : ~Faulty(j)

\* C10: the outcome of compute_hashes is the one the run at concurrency
\* level 1 has, whatever the interleaving of the tasks.
C10_SameOutcomeEveryInterleaving ==
    /\ outcome = "returned" =>
          result = [k \in 1..Len(files) |-> <<files[k], WholeDigest(content[files[k]])>>]
    /\ outcome = "raised" => outerExc = files[FirstFaulty]

\* C11: no symbolic link is returned by collect_files, and nothing reached
\* through a symbolic link to a directory is.
C11_SymlinksNotFollowed ==
    Collected =>
        \A k \in 1..Len(files) :
            /\ tree[files[k]] \notin {"link_file", "link_dir"}
            /\ \A j \in 1..(Len(files[k]) - 1) :
                  tree[SubSeq(files[k], 1, j)] # "link_dir"

\* collect_files was called with repo_path unset or with no directory at
\* repo_path.
RootMissingAtCollect ==
    /\ InParts("collect_files", calls)
    /\ ~repo_path \/ InParts("error: clone failed", cloneLog)

\* C12: when the root is missing or unset, discovery ends in an error: no
\* list is returned and no hashing starts.
C12_MissingRootFails ==
    RootMissingAtCollect =>
        /\ mainpc = "run_raised"
        /\ error # "none"
        /\ ~InParts("compute_hashes", calls)
        /\ Tasks = {}

\* C13: once the caller has cancelled compute_hashes, no hash task reads
\* again or starts reading, and no result is returned or logged.
C13_CancelAbandonsTasks ==
    [][(mainpc = "gather_cancel" \/ outcome = "cancelled") =>
          /\ \A i \in Tasks :
                /\ pos'[i] = pos[i]
                /\ taskpc[i] = "reading" => taskpc'[i] \in {"reading", "close_cancel"}
                /\ taskpc'[i] \in {"reading", "done"} => taskpc'[i] = taskpc[i]
          /\ outcome' # "returned"
          /\ result' = <<>>
          /\ log' = <<>>]_vars

\* C14: a failed clone is logged and re-raised, and then run() does
\* nothing more: no discovery, no hashing, no "path: hash" line.
C14_CloneFailureStopsRun ==
    /\ InParts("error: clone failed", cloneLog) <=> error = "GitCommandError"
    /\ error = "GitCommandError" =>
          /\ mainpc = "run_raised"
          /\ calls = <<"clone_repo">>
          /\ files = <<>>
          /\ Tasks = {}
          /\ outcome = "pending"
          /\ log = <<>>
          /\ ~exists

\* The failed run has ended and its loop is closed.
C14_Witness ==
    /\ error = "GitCommandError"
    /\ cloneLog = <<"info: cloning", "error: clone failed">>
    /\ loop = "closed"

FullPipeline == <<"clone_repo", "process_files", "collect_files", "compute_hashes">>

IsPrefix(s, t) == Len(s) <= Len(t) /\ SubSeq(t, 1, Len(s)) = s

\* C15 as stated: every run of run() invokes clone_repo and then
\* process_files, each exactly once.
C15_PipelineEveryRun ==
    mainpc \in {"run_done", "run_raised"} =>
        /\ calls = FullPipeline
        /\ log # <<>> => outcome = "returned"

\* C15, amended: the methods are invoked in pipeline order, each at most
\* once; process_files exactly once when clone_repo completes and not at
\* all when it raises; compute_hashes gets the list collect_files returned;
\* nothing is logged before compute_hashes has returned.
C15_PipelineOrder ==
    /\ IsPrefix(calls, FullPipeline)
    /\ mainpc \in {"run_done", "run_raised"} =>
          calls = IF error = "GitCommandError" THEN <<"clone_repo">> ELSE FullPipeline
    /\ InParts("process_files", calls) => cloneLog = <<"info: cloning">>
    /\ InParts("compute_hashes", calls) =>
          /\ files \in Orderings(CollectFilesSet(tree))
          /\ Len(taskpc) = Len(files)
    /\ log # <<>> => (outcome = "returned" /\ log = result)

\* A run that went through the whole pipeline and logged two lines.
C15_Witness ==
    /\ mainpc = "run_done"
    /\ calls = FullPipeline
    /\ Len(log) = 2

\* C16: after a successful process_files, the log holds exactly one line
\* per collected file, with that file's digest, and none for a file inside
\* .git.
C16_OneLinePerFile ==
    mainpc \in {"run_exit", "run_done"} =>
        /\ Len(log) = Len(files)
        /\ \A k \in 1..Len(log) :
              /\ log[k] = <<files[k], WholeDigest(content[files[k]])>>
              /\ ~InsideExcluded(log[k][1])
              /\ \A j \in 1..Len(log) : j # k => log[j][1] # log[k][1]
        /\ Range(files) = CollectFilesSet(tree)

\* Two files were logged while .git/config was left out.
C16_Witness ==
    /\ mainpc = "run_done"
    /\ Len(log) = 2
    /\ tree[NameGitConfig] = "file"
    /\ log[1][2] # log[2][2]

EmptyAndReadable(i) == content[files[i]] = <<>> /\ ~Faulty(i)

\* C17: hash_file on a zero-byte file feeds nothing to the accumulator,
\* ends with the digest of the empty input, of the length every digest
\* has, and does end.
C17_EmptyFileDigest ==
    /\ [](\A i \in Tasks :
            /\ EmptyAndReadable(i) =>
                  /\ taskpc[i] \notin {"failed", "cancelled", "close_err"}
                  /\ pos[i] = 0
                  /\ sha256[i] = HashInit
                  /\ taskpc[i] = "done" => hashes[i] = WholeDigest(<<>>)
            /\ taskpc[i] = "done" => Len(hashes[i]) = DigestLen)
    /\ (\A i \in Tasks : EmptyAndReadable(i)) ~> (\A i \in Tasks : taskpc[i] = "done")

\* The zero-byte file was hashed.
C17_Witness ==
    /\ Tasks # {}
    /\ EmptyAndReadable(1)
    /\ taskpc[1] = "done"
    /\ hashes[1] = WholeDigest(<<>>)
    /\ pos[1] = 0

\* C18: when every task succeeds, gather resolves with the results and
\* compute_hashes returns, in input order, each path with its own digest.
C18_InputOrderPairs ==
    /\ (Tasks # {} /\ \A i \in Tasks : taskpc[i] = "done") => outer = "result"
    /\ outcome = "returned" =>
          /\ Len(result) = Len(files)
          /\ \A k \in 1..Len(files) :
                result[k] = <<files[k], WholeDigest(content[files[k]])>>

\* Two files with different digests came back.
C18_Witness ==
    /\ outcome = "returned"
    /\ Len(result) = 2
    /\ result[1][2] # result[2][2]

\* C19: a hash_file call that has ended has left no file open.
C19_FilesClosed ==
    \A i \in Tasks : taskpc[i] \in FinalPcs => ~isOpen[i]

\* C20: at the step where the temporary directory is removed, every hash
\* task has ended and no file of the tree is open.
C20_RemovedWhenIdle ==
    [][(exists /\ ~exists') =>
          \A i \in Tasks : taskpc[i] \in FinalPcs /\ ~isOpen[i]]_vars

====
